---- MODULE Spec2Model ----
(***************************************************************************)
(* Model of the drug-moderation pipeline of pylabel:                       *)
(*   automated_labeler.py  AutomatedLabeler.moderate_post and its helpers  *)
(*   fda_lookup.py         fetch_fda_results, get_generic_name_from_label, *)
(*                         check_fda_approval, get_fda_labeling            *)
(*   claim_checker.py      extract_claim, fact_check_claim                 *)
(*                                                                         *)
(* Strings that the code transforms (strip, lower) are sequences of        *)
(* one-character strings.  Scores are integers in hundredths (0.65 = 65).  *)
(* JSON values whose type the code depends on carry a tag t.               *)
(* Python dicts are functions on their keys; Get is dict.get.              *)
(***************************************************************************)
EXTENDS Integers, Sequences, FiniteSets, TLC

\* ------------------------------------------------------------------ bounds
\* longest drug_names list the detector returns / approved_drugs list
MaxDrugs == 2

\* ------------------------------------------------------- program constants
DRUG_CONFIDENCE_THRESHOLD == 65
FACT_CHECK_THRESHOLD == 50
\* @lru_cache(maxsize=200) on check_fda_approval and get_fda_labeling
CACHE_MAXSIZE == 200
\* the design value of the extractor's confidence band (CONFIDENCE section
\* of the extract_claim prompt: 0.7 and above is a claim)
CLAIM_CONFIDENCE_BAND == 70

\* ------------------------------------------------------------ Python values
EmptyDict == [k \in {} |-> k]
Get(d, k, default) == IF k \in DOMAIN d THEN d[k] ELSE default
Dict(d) == [t |-> "dict", d |-> d]
NonDict == [t |-> "list"]
Num(v) == [t |-> "num", v |-> v]
Str(s) == [t |-> "str", s |-> s]
None == <<"None">>
Return(v) == [raised |-> FALSE, value |-> v]
Raise(e) == [raised |-> TRUE, exc |-> e]

\* str.lower and str.strip on character sequences
LowerChar(c) == IF c = "A" THEN "a" ELSE IF c = "B" THEN "b" ELSE c
lower(s) == [k \in DOMAIN s |-> LowerChar(s[k])]
RECURSIVE lstrip(_)
lstrip(s) == IF s # <<>> /\ Head(s) = " " THEN lstrip(Tail(s)) ELSE s
RECURSIVE rstrip(_)
rstrip(s) == IF s # <<>> /\ s[Len(s)] = " " THEN rstrip(SubSeq(s, 1, Len(s) - 1)) ELSE s
strip(s) == rstrip(lstrip(s))

SeqsUpTo(S, n) == UNION {[1..m -> S] : m \in 0..n}

\* ------------------------------------------------- the two external indexes
\* What one HTTP request can come back with: requests.get raising, or a
\* response with a status code and a body that is JSON or not.
TransportFailure == [kind |-> "exc", exc |-> "Timeout"]
Http(s, b) == [kind |-> "http", status |-> s, body |-> b]
NotJsonBody == [json |-> FALSE]
JsonBody(d) == [json |-> TRUE, data |-> d]
NotAsked == [kind |-> "none"]

\* product records of the approval index (drugsfda)
RecFull == Dict([openfda |-> [brand_name |-> << <<"A">> >>,
                              generic_name |-> << <<"b">> >>,
                              manufacturer_name |-> << <<"m">> >>]])
RecPartial == Dict([openfda |-> [generic_name |-> << <<"a">> >>]])
ApprovalRecords == {RecFull, RecPartial, NonDict}
ApprovalResponses ==
    {TransportFailure, Http(404, NotJsonBody), Http(500, NotJsonBody),
     Http(200, NotJsonBody), Http(200, JsonBody(EmptyDict)),
     Http(200, JsonBody([results |-> <<>>]))}
    \cup {Http(200, JsonBody([results |-> <<r>>])) : r \in ApprovalRecords}

\* label records of the labeling index (label.json)
Indication == <<"i">>
IndicationLists == {<<>>, <<Indication>>}
GenericNameLists == {<<>>, << <<"a">> >>, << <<"b">> >>}
LabelRecords ==
    {Dict([openfda |-> [generic_name |-> g], indications_and_usage |-> ind]) :
        g \in GenericNameLists, ind \in IndicationLists}
    \cup {Dict(EmptyDict), NonDict}
LabelResponses ==
    {TransportFailure, Http(404, NotJsonBody), Http(500, NotJsonBody),
     Http(200, NotJsonBody), Http(200, JsonBody(EmptyDict)),
     Http(200, JsonBody([results |-> <<>>]))}
    \cup {Http(200, JsonBody([results |-> <<r>>])) : r \in LabelRecords}

\* --------------------------------------------------------------- fda_lookup
fetch_fda_results(resp) ==
    IF resp.kind = "exc" THEN Raise(resp.exc)
    ELSE IF resp.status = 404 THEN Return(<<>>)
    ELSE IF resp.status >= 400 THEN Raise("HTTPError")
    ELSE IF ~resp.body.json THEN Raise("JSONDecodeError")
    ELSE Return(Get(resp.body.data, "results", <<>>))

get_generic_name_from_label(drug_name, resp) ==
    IF resp.kind = "exc" THEN drug_name
    ELSE IF resp.status # 200 THEN drug_name
    ELSE IF ~resp.body.json THEN drug_name
    ELSE LET results == Get(resp.body.data, "results", <<>>)
         IN  IF results = <<>> THEN drug_name
             ELSE IF results[1].t # "dict" THEN drug_name
             ELSE LET openfda == Get(results[1].d, "openfda", EmptyDict)
                      generic_names == Get(openfda, "generic_name", <<>>)
                  IN  IF generic_names # <<>> /\ generic_names[1] # <<>>
                      THEN generic_names[1]
                      ELSE drug_name

FirstOrNone(list) == IF list = <<>> THEN None ELSE list[1]

\* line 98 never asking for the translated name
NeedsSecondQuery_never(generic_name, drug_name) == FALSE

\* the case-insensitive test of line 98 that decides the second query
NeedsSecondQuery(generic_name, drug_name) ==
    generic_name # <<>> /\ lower(generic_name) # lower(drug_name)

\* What became of the labeling-index request inside
\* get_generic_name_from_label, which hides it from its caller: the request
\* raised, answered with a status other than 200, could not be decoded, held
\* a malformed record, or was answered ("ok").
label_request_outcome(resp) ==
    IF resp.kind = "none" THEN "notasked"
    ELSE IF resp.kind = "exc" THEN resp.exc
    ELSE IF resp.status = 404 THEN "nomatch"
    ELSE IF resp.status # 200 THEN "HTTPError"
    ELSE IF ~resp.body.json THEN "JSONDecodeError"
    ELSE LET results == Get(resp.body.data, "results", <<>>)
         IN  IF results = <<>> THEN "nomatch"
             ELSE IF results[1].t # "dict" THEN "AttributeError"
             ELSE "ok"

\* lines 93-95: the labeling index is asked when the first query found nothing
AsksLabel(r1) ==
    LET f1 == fetch_fda_results(r1) IN ~f1.raised /\ f1.value = <<>>

\* lines 95-99: the second approval-index query is issued
AsksSecond(drug_name, r1, rl) ==
    AsksLabel(r1) /\ NeedsSecondQuery(get_generic_name_from_label(drug_name, rl), drug_name)

\* the except clause of line 117 dropping the message
approval_result_no_error(f) ==
    IF f.raised THEN [approved |-> FALSE]
    ELSE IF f.value = <<>> THEN [approved |-> FALSE]
    ELSE IF f.value[1].t # "dict" THEN [approved |-> FALSE]
    ELSE LET openfda == Get(f.value[1].d, "openfda", EmptyDict)
         IN  [approved |-> TRUE,
              brand_name |-> FirstOrNone(Get(openfda, "brand_name", <<>>)),
              generic_name |-> FirstOrNone(Get(openfda, "generic_name", <<>>)),
              manufacturer |-> FirstOrNone(Get(openfda, "manufacturer_name", <<>>))]

\* lines 102-120: the result built from the outcome of the last approval-index
\* query; every exception is caught and becomes an error result
approval_result(f) ==
    IF f.raised THEN [approved |-> FALSE, error |-> f.exc]
    ELSE IF f.value = <<>> THEN [approved |-> FALSE]
    ELSE IF f.value[1].t # "dict" THEN [approved |-> FALSE, error |-> "AttributeError"]
    ELSE LET openfda == Get(f.value[1].d, "openfda", EmptyDict)
         IN  [approved |-> TRUE,
              brand_name |-> FirstOrNone(Get(openfda, "brand_name", <<>>)),
              generic_name |-> FirstOrNone(Get(openfda, "generic_name", <<>>)),
              manufacturer |-> FirstOrNone(Get(openfda, "manufacturer_name", <<>>))]

\* The body of check_fda_approval (what runs on a cache miss), as a function
\* of the responses its requests receive: r1 to the first approval-index
\* query, rl to the labeling-index query, r2 to the second approval-index
\* query.  The value has the result and a trace of the requests issued:
\* the outcome of each approval-index query, what became of the labeling
\* request, the name the second query used, and the number of requests.
check_fda_approval_body(drug_name, r1, rl, r2) ==
    LET f1 == fetch_fda_results(r1)
        askLabel == AsksLabel(r1)
        generic_name == IF askLabel THEN get_generic_name_from_label(drug_name, rl)
                        ELSE drug_name
        askSecond == AsksSecond(drug_name, r1, rl)
        f2 == IF askSecond THEN fetch_fda_results(r2) ELSE f1
        trace == [q1 |-> f1,
                  lab |-> IF askLabel THEN label_request_outcome(rl) ELSE "notasked",
                  generic |-> generic_name,
                  q2 |-> IF askSecond THEN f2 ELSE NotAsked,
                  queries |-> 1 + (IF askLabel THEN 1 ELSE 0) + (IF askSecond THEN 1 ELSE 0)]
    IN  [result |-> approval_result(f2), trace |-> trace]

\* functools.lru_cache: a list of (key, value) entries, least recently used
\* first; a hit moves the entry to the end, a miss appends and evicts the
\* first entry beyond maxsize.
CacheKeys(cache) == {cache[k].key : k \in DOMAIN cache}
CacheHas(cache, key) == key \in CacheKeys(cache)
CacheIndex(cache, key) == CHOOSE k \in DOMAIN cache : cache[k].key = key
\* a lookup that ignores the key
CacheValue_any_key(cache, key) == cache[1].value
CacheValue(cache, key) == cache[CacheIndex(cache, key)].value
CacheWithout(cache, key) == SelectSeq(cache, LAMBDA e : e.key # key)
CacheTouch(cache, key) ==
    Append(CacheWithout(cache, key), [key |-> key, value |-> CacheValue(cache, key)])
CachePut(cache, key, value) ==
    LET added == Append(cache, [key |-> key, value |-> value])
    IN  IF Len(added) > CACHE_MAXSIZE THEN Tail(added) ELSE added

\* check_fda_approval behind its lru_cache.  A resident entry is returned
\* without running the body; otherwise the body runs and whatever it returns
\* (errors included, since the body catches every exception) is stored.
HitTrace(drug_name) ==
    [q1 |-> NotAsked, lab |-> "notasked", generic |-> drug_name, q2 |-> NotAsked, queries |-> 0]

\* a wrapper that runs the body again when the resident result has an error
check_fda_approval_retries_errors(cache, drug_name, r1, rl, r2) ==
    IF CacheHas(cache, drug_name) /\ "error" \notin DOMAIN CacheValue(cache, drug_name)
    THEN [result |-> CacheValue(cache, drug_name),
          trace |-> HitTrace(drug_name),
          cache |-> CacheTouch(cache, drug_name)]
    ELSE LET b == check_fda_approval_body(drug_name, r1, rl, r2)
         IN  [result |-> b.result, trace |-> b.trace,
              cache |-> CachePut(CacheWithout(cache, drug_name), drug_name, b.result)]

check_fda_approval(cache, drug_name, r1, rl, r2) ==
    IF CacheHas(cache, drug_name)
    THEN [result |-> CacheValue(cache, drug_name),
          trace |-> HitTrace(drug_name),
          cache |-> CacheTouch(cache, drug_name)]
    ELSE LET b == check_fda_approval_body(drug_name, r1, rl, r2)
         IN  [result |-> b.result, trace |-> b.trace,
              cache |-> CachePut(cache, drug_name, b.result)]

\* ------------------------------------------------------ detector inference
ConfValues == {64, 65}
RawNames == {<<"A">>, <<" ", "A">>, <<"b">>, <<" ">>}
DrugElems == {Str(n) : n \in RawNames} \cup {Num(7)}
DrugLists == SeqsUpTo(DrugElems, MaxDrugs)
PayloadDicts ==
    {a @@ b @@ c :
        a \in {EmptyDict} \cup {[discussing_drug |-> v] : v \in BOOLEAN},
        b \in {EmptyDict} \cup {[confidence_score |-> v] : v \in {Num(n) : n \in ConfValues} \cup {Str(<<"A">>)}},
        c \in {EmptyDict} \cup {[drug_names |-> v] : v \in DrugLists}}
\* the text the model sends back: not JSON, or a JSON value
DetectorOutputs ==
    {[json |-> FALSE]} \cup {[json |-> TRUE, value |-> v] : v \in {NonDict} \cup {Dict(d) : d \in PayloadDicts}}
PyNone == [t |-> "None"]
Unset == [t |-> "unset"]

\* _detect_drug_mention: json.loads of the output, None on JSONDecodeError
detect_drug_mention(out) == IF out.json THEN out.value ELSE PyNone

\* the gate with the confidence test left out
approval_gate_no_threshold(p) ==
    IF p.t # "dict" THEN Raise("AttributeError")
    ELSE IF ~Get(p.d, "discussing_drug", FALSE) THEN Return("empty")
    ELSE LET cs == Get(p.d, "confidence_score", Num(0))
         IN  IF cs.t # "num" THEN Raise("TypeError")
             ELSE IF Get(p.d, "drug_names", <<>>) = <<>> THEN Return("empty")
             ELSE Return("pass")

\* the gate of _determine_approval_labels (lines 149-154): "raise" when an
\* operation of the gate raises, "empty" for return [], [], "pass" otherwise
approval_gate(p) ==
    IF p.t # "dict" THEN Raise("AttributeError")
    ELSE IF ~Get(p.d, "discussing_drug", FALSE) THEN Return("empty")
    ELSE LET cs == Get(p.d, "confidence_score", Num(0))
         IN  IF cs.t # "num" THEN Raise("TypeError")
             ELSE IF cs.v < DRUG_CONFIDENCE_THRESHOLD THEN Return("empty")
             ELSE IF Get(p.d, "drug_names", <<>>) = <<>> THEN Return("empty")
             ELSE Return("pass")

\* line 165 testing only for an error
is_unapproved_error_only(approval) == "error" \in DOMAIN approval

\* line 165: the approval result counts as unapproved
is_unapproved(approval) == "error" \in DOMAIN approval \/ ~approval.approved

\* lines 173-176 keeping the approved names under the unapproved verdict
approval_verdict_keeps_names(unapproved, approved) ==
    IF unapproved THEN [labels |-> <<"drug-unapproved">>, approved |-> approved]
    ELSE [labels |-> <<"drug-approved">>, approved |-> approved]

\* lines 173-176: the pair _determine_approval_labels returns after the loop
approval_verdict(unapproved, approved) ==
    IF unapproved THEN [labels |-> <<"drug-unapproved">>, approved |-> <<>>]
    ELSE [labels |-> <<"drug-approved">>, approved |-> approved]

\* _log_moderation_result: one appended row
log_row(p, ls, details) == [payload |-> p, labels |-> ls, claim_details |-> details]

\* -------------------------------------------------------------------- state
VARIABLES
    pc,              \* position of the current moderate_post / _check_claims call
    exc,             \* the exception the call ended with, "none" otherwise
    payload,         \* moderate_post: payload
    i,               \* index of the for loop in progress
    has_unapproved,  \* _determine_approval_labels: has_unapproved
    approved_drugs,  \* approved_drugs (local, then the value returned)
    approval_labels, \* moderate_post: approval_labels
    labels,          \* the label list returned to the caller
    claim_labels,    \* _check_claims: claim_labels
    claim_details,   \* _check_claims: claim_details
    claim_info,      \* _check_claims: claim_info
    audit,           \* rows appended to the log file by the current call
    approvalCache,   \* lru_cache of check_fda_approval
    labelingCache,   \* lru_cache of get_fda_labeling
    lastApproval,    \* the last check_fda_approval call: arguments, requests, result
    firstResult,     \* per name, what the call that found it not resident returned
    approvals,       \* the check_fda_approval results of the current call, in order
    extractCalls,    \* extract_claim call expressions evaluated by the current call
    factCalls,       \* fact_check_claim call expressions evaluated by the current call
    lastLabeling,    \* the last get_fda_labeling call
    lastFact,        \* the last fact_check_claim call
    indications,     \* fact_check_claim: indications
    fda_text,        \* fact_check_claim: fda_text, as placed in the prompt
    threads          \* callers of a cached function running concurrently

vars == <<pc, exc, payload, i, has_unapproved, approved_drugs, approval_labels, labels,
          claim_labels, claim_details, claim_info, audit, approvalCache, labelingCache,
          lastApproval, firstResult, approvals, extractCalls, factCalls, lastLabeling, lastFact,
          indications, fda_text, threads>>

claimVars == <<claim_labels, claim_details, claim_info, labelingCache, lastLabeling, lastFact>>
cacheVars == <<approvalCache, lastApproval, firstResult, approvals>>
promptVars == <<indications, fda_text>>

NoCall == [called |-> FALSE]
Keys == {strip(n) : n \in RawNames} \ {<<>>}
NoResult == [none |-> TRUE]

Init ==
    /\ pc = "idle"
    /\ exc = "none"
    /\ payload = Unset
    /\ i = 0
    /\ has_unapproved = FALSE
    /\ approved_drugs = <<>>
    /\ approval_labels = <<>>
    /\ labels = <<>>
    /\ claim_labels = <<>>
    /\ claim_details = <<>>
    /\ claim_info = Unset
    /\ audit = <<>>
    /\ approvalCache = <<>>
    /\ labelingCache = <<>>
    /\ lastApproval = NoCall
    /\ firstResult = [k \in Keys |-> NoResult]
    /\ approvals = <<>>
    /\ extractCalls = 0
    /\ factCalls = 0
    /\ lastLabeling = NoCall
    /\ lastFact = NoCall
    /\ indications = Unset
    /\ fda_text = Unset
    /\ threads = <<>>

\* ------------------------------------------------------------ moderate_post
\* lines 190-195: a new call; post_from_url either raises or gives the text
FetchPost ==
    /\ pc \in {"idle", "returned", "raised"}
    /\ \E ok \in BOOLEAN :
        /\ pc' = IF ok THEN "fetched" ELSE "raised"
        /\ exc' = IF ok THEN "none" ELSE "FetchError"
    /\ payload' = Unset
    /\ i' = 0
    /\ has_unapproved' = FALSE
    /\ approved_drugs' = <<>>
    /\ approval_labels' = <<>>
    /\ labels' = <<>>
    /\ audit' = <<>>
    /\ approvals' = <<>>
    /\ lastApproval' = NoCall
    /\ extractCalls' = 0
    /\ factCalls' = 0
    /\ UNCHANGED <<approvalCache, firstResult, claimVars>>
    /\ UNCHANGED <<promptVars, threads>>

InSeq(x, s) == \E k \in DOMAIN s : s[k] = x

\* lines 198-210 up to the loop over drug_names: the detector, then the gate
\* of _determine_approval_labels.  A None payload returns [] at once; a
\* payload that does not pass the gate is logged and returns []; an
\* operation of the gate that raises ends the call.
DetectDrugMention ==
    /\ pc = "fetched"
    /\ \E out \in DetectorOutputs :
        LET p == detect_drug_mention(out)
            g == IF p = PyNone THEN Return("none") ELSE approval_gate(p)
        IN  /\ payload' = p
            /\ pc' = IF g.raised THEN "raised"
                     ELSE IF g.value = "pass" THEN "approval_loop" ELSE "returned"
            /\ exc' = IF g.raised THEN g.exc ELSE exc
            /\ audit' = IF ~g.raised /\ g.value = "empty"
                        THEN Append(audit, log_row(p, <<>>, <<>>)) ELSE audit
    /\ labels' = <<>>
    /\ i' = 1
    /\ UNCHANGED <<has_unapproved, approved_drugs, approval_labels,
                   extractCalls, factCalls, cacheVars, claimVars>>
    /\ UNCHANGED <<promptVars, threads>>

\* the responses a check_fda_approval call consumes: none on a hit, and only
\* those of the requests the body issues
LabelChoices(cache, drug_name, r1) ==
    IF ~CacheHas(cache, drug_name) /\ AsksLabel(r1) THEN LabelResponses ELSE {NotAsked}
\* r2 is what the approval index holds under the name the labeling index
\* gave, whenever that name is another string than drug_name; the body
\* reads it only if it issues the second query
SecondChoices(cache, drug_name, r1, rl) ==
    IF /\ ~CacheHas(cache, drug_name)
       /\ rl # NotAsked
       /\ get_generic_name_from_label(drug_name, rl) # drug_name
    THEN ApprovalResponses ELSE {NotAsked}
FirstChoices(cache, drug_name) ==
    IF CacheHas(cache, drug_name) THEN {NotAsked} ELSE ApprovalResponses

\* lines 160-168: one iteration of the loop over drug_names
CheckApprovalStep ==
    /\ pc = "approval_loop"
    /\ i <= Len(payload.d.drug_names)
    /\ LET elem == payload.d.drug_names[i]
       IN  IF elem.t # "str"
           THEN /\ pc' = "raised"
                /\ exc' = "AttributeError"
                /\ UNCHANGED <<i, has_unapproved, approved_drugs, cacheVars>>
           ELSE LET drug_name == strip(elem.s)
                IN  IF drug_name = <<>>
                    THEN /\ i' = i + 1
                         /\ UNCHANGED <<pc, exc, has_unapproved, approved_drugs, cacheVars>>
                    ELSE \E r1 \in FirstChoices(approvalCache, drug_name) :
                         \E rl \in LabelChoices(approvalCache, drug_name, r1) :
                         \E r2 \in SecondChoices(approvalCache, drug_name, r1, rl) :
                         LET c == check_fda_approval(approvalCache, drug_name, r1, rl, r2)
                             resident == CacheHas(approvalCache, drug_name)
                         IN  /\ approvalCache' = c.cache
                             /\ lastApproval' = [called |-> TRUE, name |-> drug_name,
                                                 resident |-> resident,
                                                 underGeneric |-> IF r2 = NotAsked THEN NotAsked
                                                                  ELSE fetch_fda_results(r2),
                                                 trace |-> c.trace, result |-> c.result]
                             /\ firstResult' = IF resident THEN firstResult
                                               ELSE [firstResult EXCEPT ![drug_name] = c.result]
                             /\ approvals' = Append(approvals, c.result)
                             /\ has_unapproved' = (has_unapproved \/ is_unapproved(c.result))
                             /\ approved_drugs' = IF is_unapproved(c.result) THEN approved_drugs
                                                  ELSE Append(approved_drugs, drug_name)
                             /\ i' = i + 1
                             /\ UNCHANGED <<pc, exc>>
    /\ UNCHANGED <<payload, approval_labels, labels, audit, extractCalls, factCalls, claimVars>>
    /\ UNCHANGED <<promptVars, threads>>

\* lines 173-174 and 206-210: the unapproved verdict discards the approved
\* names; moderate_post logs it and returns it
ReturnUnapproved ==
    /\ pc = "approval_loop"
    /\ i > Len(payload.d.drug_names)
    /\ has_unapproved
    /\ approval_labels' = approval_verdict(has_unapproved, approved_drugs).labels
    /\ approved_drugs' = approval_verdict(has_unapproved, approved_drugs).approved
    /\ audit' = Append(audit, log_row(payload, approval_labels', <<>>))
    /\ labels' = approval_labels'
    /\ pc' = "returned"
    /\ UNCHANGED <<exc, payload, i, has_unapproved, extractCalls, factCalls,
                   cacheVars, claimVars>>
    /\ UNCHANGED <<promptVars, threads>>

\* lines 176 and 213-224: the approved verdict, then _check_claims.
\* _check_claims evaluates extract_claim(text, drug_name) for its first drug
\* (line 114); extract_claim requires a third positional argument llm_model
\* (claim_checker.py line 11), so that call raises TypeError and nothing
\* catches it.  With no approved drug the loop body never runs, and the call
\* logs and returns.
CheckClaimsInRun ==
    /\ pc = "approval_loop"
    /\ i > Len(payload.d.drug_names)
    /\ ~has_unapproved
    /\ approval_labels' = approval_verdict(has_unapproved, approved_drugs).labels
    /\ approved_drugs' = approval_verdict(has_unapproved, approved_drugs).approved
    /\ IF approved_drugs' = <<>>
       THEN /\ labels' = approval_labels'
            /\ audit' = Append(audit, log_row(payload, approval_labels', <<>>))
            /\ pc' = "returned"
            /\ UNCHANGED <<exc, extractCalls>>
       ELSE /\ extractCalls' = extractCalls + 1
            /\ pc' = "raised"
            /\ exc' = "TypeError"
            /\ UNCHANGED <<labels, audit>>
    /\ UNCHANGED <<payload, i, has_unapproved, factCalls, cacheVars, claimVars>>
    /\ UNCHANGED <<promptVars, threads>>

Next ==
    \/ FetchPost
    \/ DetectDrugMention
    \/ CheckApprovalStep
    \/ ReturnUnapproved
    \/ CheckClaimsInRun

Spec == Init /\ [][Next]_vars

\* ------------------------------------------------------------ get_fda_labeling
\* The body of get_fda_labeling as a function of the response to its
\* request.  Nothing is caught: requests.get raising and response.json()
\* raising leave the function as exceptions.
get_fda_labeling_body(resp) ==
    IF resp.kind = "exc" THEN Raise(resp.exc)
    ELSE IF resp.status # 200 THEN Return(EmptyDict)
    ELSE IF ~resp.body.json THEN Raise("JSONDecodeError")
    ELSE LET label_results == Get(resp.body.data, "results", <<>>)
         IN  IF label_results = <<>> THEN Return(EmptyDict)
             ELSE IF label_results[1].t # "dict" THEN Raise("AttributeError")
             ELSE Return([indications |->
                             Get(label_results[1].d, "indications_and_usage", <<>>)])

\* get_fda_labeling behind its lru_cache; a call that raises stores nothing
get_fda_labeling(cache, drug_name, resp) ==
    IF CacheHas(cache, drug_name)
    THEN [outcome |-> Return(CacheValue(cache, drug_name)),
          cache |-> CacheTouch(cache, drug_name)]
    ELSE LET b == get_fda_labeling_body(resp)
         IN  [outcome |-> b,
              cache |-> IF b.raised THEN cache ELSE CachePut(cache, drug_name, b.value)]

\* ------------------------------------------------------------- claim_checker
\* what the extractor inference can send back
ClaimText == <<"c">>
ExtractorDicts ==
    {a @@ b @@ c :
        a \in {EmptyDict} \cup {[has_claim |-> v] : v \in BOOLEAN},
        b \in {EmptyDict} \cup {[claim_confidence |-> v] : v \in {Num(30), Num(90), Str(<<"A">>), PyNone}},
        c \in {EmptyDict, [claim_text |-> ClaimText]}}
ExtractorOutputs ==
    {[json |-> FALSE]} \cup {[json |-> TRUE, value |-> v] : v \in {NonDict} \cup {Dict(d) : d \in ExtractorDicts}}

NoClaim == [has_claim |-> FALSE, claim_confidence |-> Num(0), claim_text |-> <<>>]

\* extract_claim, lines 58-65: the parsed object is returned as it is; the
\* except clause covers JSONDecodeError, ValueError (formatting a string
\* confidence with .2f) and KeyError, not the AttributeError of a non-object
\* nor the TypeError of formatting None
extract_claim(out) ==
    IF ~out.json THEN Return(NoClaim)
    ELSE IF out.value.t # "dict" THEN Raise("AttributeError")
    ELSE LET confidence == Get(out.value.d, "claim_confidence", Num(0))
         IN  IF confidence.t = "str" THEN Return(NoClaim)
             ELSE IF confidence.t # "num" THEN Raise("TypeError")
             ELSE Return(out.value.d)

\* what the verifier inference can send back
Evidence == <<"e">>
VerifierDicts ==
    {a @@ b @@ c :
        a \in {EmptyDict} \cup {[match_score |-> v] : v \in {Num(0), Num(49), Num(50), Str(<<"A">>), PyNone}},
        b \in {EmptyDict, [confidence |-> Num(90)]},
        c \in {[evidence |-> Evidence]}}
VerifierOutputs ==
    {[json |-> FALSE]} \cup {[json |-> TRUE, value |-> v] : v \in {NonDict} \cup {Dict(d) : d \in VerifierDicts}}

NoData == [supported |-> "None", evidence |-> <<"No FDA indication data">>]
NotVerified == [supported |-> "None", evidence |-> <<"Could not verify claim">>]

\* Python truth of a JSON scalar, for `result.get("match_score") or ...`
Truthy(v) == IF v.t = "num" THEN v.v # 0 ELSE IF v.t = "str" THEN v.s # <<>> ELSE FALSE

\* fact_check_claim, lines 132-145, on the verifier's output
verdict(out, threshold) ==
    IF ~out.json THEN Return(NotVerified)
    ELSE IF out.value.t # "dict" THEN Raise("AttributeError")
    ELSE LET result == out.value.d
             first == Get(result, "match_score", PyNone)
             score == IF Truthy(first) THEN first ELSE Get(result, "confidence", Num(0))
         IN  IF score.t = "str" THEN Return(NotVerified)
             ELSE IF score.t # "num" THEN Raise("TypeError")
             ELSE Return([supported |-> IF score.v >= threshold THEN "True" ELSE "False",
                          evidence |-> Get(result, "evidence", <<>>)])

\* line 90: "\n".join(f"- {ind}" for ind in indications)
NewLine == "\n"
Bullet(ind) == <<"-", " ">> \o ind
RECURSIVE JoinLines(_)
JoinLines(lines) ==
    IF lines = <<>> THEN <<>>
    ELSE IF Len(lines) = 1 THEN lines[1]
    ELSE lines[1] \o <<NewLine>> \o JoinLines(Tail(lines))
join_indications(inds) == JoinLines([k \in DOMAIN inds |-> Bullet(inds[k])])

\* lines 91-92: the text beyond the limit is cut and a marker appended
PROMPT_LIMIT == 1500
TruncationMarker ==
    <<NewLine, ".", ".", ".", " ", "(", "t", "r", "u", "n", "c", "a", "t", "e", "d", ")">>
\* the cut applied from the limit on, not beyond it
truncate_fda_text_from_limit(text) ==
    IF Len(text) >= PROMPT_LIMIT
    THEN SubSeq(text, 1, PROMPT_LIMIT) \o TruncationMarker
    ELSE text
truncate_fda_text(text) ==
    IF Len(text) > PROMPT_LIMIT
    THEN SubSeq(text, 1, PROMPT_LIMIT) \o TruncationMarker
    ELSE text

\* fact_check_claim asking the verifier whatever the indications are
fact_check_claim_always_asks(labeling, out, threshold) ==
    IF labeling.raised THEN [outcome |-> labeling, asked |-> FALSE]
    ELSE [outcome |-> verdict(out, threshold), asked |-> TRUE]

\* fact_check_claim, lines 82-145, given the outcome of get_fda_labeling and
\* the verifier's output; asked says whether the inference request is made
fact_check_claim(labeling, out, threshold) ==
    IF labeling.raised THEN [outcome |-> labeling, asked |-> FALSE]
    ELSE IF Get(labeling.value, "indications", <<>>) = <<>>
         THEN [outcome |-> Return(NoData), asked |-> FALSE]
         ELSE [outcome |-> verdict(out, threshold), asked |-> TRUE]

\* line 115 with the confidence band left unchecked, as the code has it
has_claim(info) == Get(info, "has_claim", FALSE)

\* ------------------------------------------------------------ _check_claims
\* _check_claims is run here with extract_claim and fact_check_claim given
\* the llm_model and threshold arguments that the calls of lines 114 and 118
\* leave out, so that the loop body of lines 115-131 runs.
ApprovedLists == SeqsUpTo(Keys, MaxDrugs)

InitClaims ==
    /\ pc = "cc_idle"
    /\ exc = "none"
    /\ payload = Unset
    /\ i = 0
    /\ has_unapproved = FALSE
    /\ approved_drugs = <<>>
    /\ approval_labels = <<>>
    /\ labels = <<>>
    /\ claim_labels = <<>>
    /\ claim_details = <<>>
    /\ claim_info = Unset
    /\ audit = <<>>
    /\ approvalCache = <<>>
    /\ labelingCache = <<>>
    /\ lastApproval = NoCall
    /\ firstResult = [k \in Keys |-> NoResult]
    /\ approvals = <<>>
    /\ extractCalls = 0
    /\ factCalls = 0
    /\ lastLabeling = NoCall
    /\ lastFact = NoCall
    /\ indications = Unset
    /\ fda_text = Unset
    /\ threads = <<>>

runVars == <<payload, has_unapproved, approval_labels, labels, audit, cacheVars>>

\* lines 109-111: a call of _check_claims
CheckClaimsCall ==
    /\ pc \in {"cc_idle", "cc_done", "cc_raised"}
    /\ \E drugs \in ApprovedLists : approved_drugs' = drugs
    /\ claim_labels' = <<>>
    /\ claim_details' = <<>>
    /\ claim_info' = Unset
    /\ i' = 1
    /\ pc' = "cc_loop"
    /\ exc' = "none"
    /\ extractCalls' = 0
    /\ factCalls' = 0
    /\ lastLabeling' = NoCall
    /\ lastFact' = NoCall
    /\ UNCHANGED <<labelingCache, runVars>>
    /\ indications' = Unset
    /\ fda_text' = Unset
    /\ UNCHANGED threads

LabelingChoices(cache, drug_name) ==
    IF CacheHas(cache, drug_name) THEN {NotAsked} ELSE LabelResponses
VerifierChoices(labeling) ==
    IF ~labeling.raised /\ Get(labeling.value, "indications", <<>>) # <<>>
    THEN VerifierOutputs ELSE {[json |-> FALSE]}

\* lines 113-131: one iteration of the loop over approved_drugs
CheckClaimsStep ==
    /\ pc = "cc_loop"
    /\ i <= Len(approved_drugs)
    /\ extractCalls' = extractCalls + 1
    /\ \E out \in ExtractorOutputs :
        LET drug_name == approved_drugs[i]
            e == extract_claim(out)
        IN  IF e.raised
            THEN /\ pc' = "cc_raised"
                 /\ exc' = e.exc
                 /\ lastFact' = NoCall
                 /\ UNCHANGED <<i, claim_info, claim_labels, claim_details, factCalls,
                                labelingCache, lastLabeling>>
            ELSE /\ claim_info' = Dict(e.value)
                 /\ IF ~has_claim(e.value)
                    THEN /\ i' = i + 1
                         /\ lastFact' = NoCall
                         /\ UNCHANGED <<pc, exc, claim_labels, claim_details, factCalls,
                                        labelingCache, lastLabeling>>
                    ELSE IF "claim_text" \notin DOMAIN e.value
                    THEN /\ pc' = "cc_raised"
                         /\ exc' = "KeyError"
                         /\ lastFact' = NoCall
                         /\ UNCHANGED <<i, claim_labels, claim_details, factCalls,
                                        labelingCache, lastLabeling>>
                    ELSE \E resp \in LabelingChoices(labelingCache, drug_name) :
                         LET l == get_fda_labeling(labelingCache, drug_name, resp)
                         IN  \E vout \in VerifierChoices(l.outcome) :
                             LET f == fact_check_claim(l.outcome, vout, FACT_CHECK_THRESHOLD)
                             IN  /\ factCalls' = factCalls + 1
                                 /\ labelingCache' = l.cache
                                 /\ lastLabeling' = [called |-> TRUE, name |-> drug_name,
                                                     resident |-> CacheHas(labelingCache, drug_name),
                                                     request |-> label_request_outcome(resp),
                                                     outcome |-> l.outcome]
                                 /\ lastFact' = [called |-> TRUE, name |-> drug_name,
                                                 asked |-> f.asked,
                                                 output |-> IF f.asked THEN vout ELSE NotAsked,
                                                 outcome |-> f.outcome]
                                 /\ IF f.outcome.raised
                                    THEN /\ pc' = "cc_raised"
                                         /\ exc' = f.outcome.exc
                                         /\ UNCHANGED <<i, claim_labels, claim_details>>
                                    ELSE /\ claim_details' = Append(claim_details,
                                                [drug_name |-> drug_name,
                                                 claim_text |-> e.value.claim_text,
                                                 supported |-> f.outcome.value.supported,
                                                 evidence |-> f.outcome.value.evidence])
                                         /\ claim_labels' =
                                                IF f.outcome.value.supported = "True"
                                                THEN Append(claim_labels, "supported-claim")
                                                ELSE IF f.outcome.value.supported = "False"
                                                THEN Append(claim_labels, "unsupported-claim")
                                                ELSE claim_labels
                                         /\ i' = i + 1
                                         /\ UNCHANGED <<pc, exc>>
    /\ UNCHANGED <<approved_drugs, runVars>>
    /\ indications' = IF lastFact'.called /\ ~lastLabeling'.outcome.raised
                      THEN Get(lastLabeling'.outcome.value, "indications", <<>>) ELSE Unset
    /\ fda_text' = IF lastFact'.called /\ lastFact'.asked
                   THEN truncate_fda_text(join_indications(indications')) ELSE Unset
    /\ UNCHANGED threads

\* lines 133-136: the loop is over and the two lists are returned
CheckClaimsReturn ==
    /\ pc = "cc_loop"
    /\ i > Len(approved_drugs)
    /\ pc' = "cc_done"
    /\ UNCHANGED <<exc, i, approved_drugs, extractCalls, factCalls, claimVars, runVars>>
    /\ UNCHANGED <<promptVars, threads>>

NextClaims ==
    \/ CheckClaimsCall
    \/ CheckClaimsStep
    \/ CheckClaimsReturn

SpecClaims == InitClaims /\ [][NextClaims]_vars

\* ------------------------------------------------- fact_check_claim's prompt
\* fact_check_claim on indication lists whose joined text lies on either
\* side of the limit: one bullet of 1498 characters joins to 1500, one of
\* 1499 to 1501; two bullets of 747 and 748 join to 1500, two of 748 to 1501.
MaxIndications == 2
IndicationLengths == {1, 747, 748, 1498, 1499}
IndicationTexts == {[k \in 1..n |-> c] : n \in IndicationLengths, c \in {"x", "y"}}
PromptIndicationLists == SeqsUpTo(IndicationTexts, MaxIndications)

pipelineVars == <<pc, exc, payload, i, has_unapproved, approved_drugs, approval_labels, labels,
                  claim_labels, claim_details, claim_info, audit, lastApproval, firstResult,
                  approvals, extractCalls, factCalls, lastLabeling, lastFact>>

InitPrompt ==
    /\ pc = "fc_start"
    /\ exc = "none"
    /\ payload = Unset
    /\ i = 0
    /\ has_unapproved = FALSE
    /\ approved_drugs = <<>>
    /\ approval_labels = <<>>
    /\ labels = <<>>
    /\ claim_labels = <<>>
    /\ claim_details = <<>>
    /\ claim_info = Unset
    /\ audit = <<>>
    /\ approvalCache = <<>>
    /\ labelingCache = <<>>
    /\ lastApproval = NoCall
    /\ firstResult = [k \in Keys |-> NoResult]
    /\ approvals = <<>>
    /\ extractCalls = 0
    /\ factCalls = 0
    /\ lastLabeling = NoCall
    /\ lastFact = NoCall
    /\ indications \in PromptIndicationLists
    /\ fda_text = Unset
    /\ threads = <<>>

\* lines 85-88: no indications, the function returns before building a prompt
ReturnNoData ==
    /\ pc = "fc_start"
    /\ indications = <<>>
    /\ pc' = "fc_no_data"
    /\ UNCHANGED <<exc, payload, i, has_unapproved, approved_drugs, approval_labels, labels,
                   claim_labels, claim_details, claim_info, audit, lastApproval, firstResult,
                   approvals, extractCalls, factCalls, lastLabeling, lastFact,
                   approvalCache, labelingCache, promptVars, threads>>

\* lines 90-92: the indication text of the prompt
BuildPrompt ==
    /\ pc = "fc_start"
    /\ indications # <<>>
    /\ fda_text' = truncate_fda_text(join_indications(indications))
    /\ pc' = "fc_prompted"
    /\ UNCHANGED <<exc, payload, i, has_unapproved, approved_drugs, approval_labels, labels,
                   claim_labels, claim_details, claim_info, audit, lastApproval, firstResult,
                   approvals, extractCalls, factCalls, lastLabeling, lastFact,
                   approvalCache, labelingCache, indications, threads>>

NextPrompt ==
    \/ ReturnNoData
    \/ BuildPrompt

SpecPrompt == InitPrompt /\ [][NextPrompt]_vars

\* ------------------------------------------------------- concurrent callers
\* Two pipeline runs calling the cached functions at the same time.  The
\* lru_cache wrapper looks the key up, runs the function outside any lock on
\* a miss, and stores the result afterwards unless the key has been added in
\* the meantime; a call that raises stores nothing.
Threads == {1, 2}
CachedFunctions == {"check_fda_approval", "get_fda_labeling"}
ThreadStarts ==
    {[pc |-> "call", fn |-> f, name |-> n, missed |-> FALSE, result |-> NoResult] :
        f \in CachedFunctions, n \in Keys}
CacheOf(fn) == IF fn = "check_fda_approval" THEN approvalCache ELSE labelingCache

InitRace ==
    /\ pc = "race"
    /\ exc = "none"
    /\ payload = Unset
    /\ i = 0
    /\ has_unapproved = FALSE
    /\ approved_drugs = <<>>
    /\ approval_labels = <<>>
    /\ labels = <<>>
    /\ claim_labels = <<>>
    /\ claim_details = <<>>
    /\ claim_info = Unset
    /\ audit = <<>>
    /\ approvalCache = <<>>
    /\ labelingCache = <<>>
    /\ lastApproval = NoCall
    /\ firstResult = [k \in Keys |-> NoResult]
    /\ approvals = <<>>
    /\ extractCalls = 0
    /\ factCalls = 0
    /\ lastLabeling = NoCall
    /\ lastFact = NoCall
    /\ indications = Unset
    /\ fda_text = Unset
    /\ threads \in [Threads -> ThreadStarts]

\* the wrapper's lookup: a hit returns the entry, a miss goes on to the body
CacheLookup(t) ==
    LET th == threads[t]
        cache == CacheOf(th.fn)
        hit == CacheHas(cache, th.name)
        after == IF hit THEN CacheTouch(cache, th.name) ELSE cache
    IN  /\ th.pc = "call"
        /\ threads' = [threads EXCEPT ![t] =
                IF hit THEN [th EXCEPT !.pc = "returned", !.result = CacheValue(cache, th.name)]
                ELSE [th EXCEPT !.pc = "miss", !.missed = TRUE]]
        /\ approvalCache' = IF th.fn = "check_fda_approval" THEN after ELSE approvalCache
        /\ labelingCache' = IF th.fn = "get_fda_labeling" THEN after ELSE labelingCache
        /\ UNCHANGED <<pipelineVars, promptVars>>

\* the body of check_fda_approval, which returns whatever its requests meet
RunApprovalBody(t) ==
    LET th == threads[t]
    IN  /\ th.pc = "miss"
        /\ th.fn = "check_fda_approval"
        /\ \E r1 \in FirstChoices(<<>>, th.name) :
           \E rl \in LabelChoices(<<>>, th.name, r1) :
           \E r2 \in SecondChoices(<<>>, th.name, r1, rl) :
               threads' = [threads EXCEPT ![t] =
                   [th EXCEPT !.pc = "computed",
                              !.result = check_fda_approval_body(th.name, r1, rl, r2).result]]
        /\ UNCHANGED <<pipelineVars, promptVars, approvalCache, labelingCache>>

\* the body of get_fda_labeling, which raises when its request fails
RunLabelingBody(t) ==
    LET th == threads[t]
    IN  /\ th.pc = "miss"
        /\ th.fn = "get_fda_labeling"
        /\ \E resp \in LabelResponses :
               LET b == get_fda_labeling_body(resp)
               IN  threads' = [threads EXCEPT ![t] =
                       IF b.raised THEN [th EXCEPT !.pc = "raised", !.result = [exc |-> b.exc]]
                       ELSE [th EXCEPT !.pc = "computed", !.result = b.value]]
        /\ UNCHANGED <<pipelineVars, promptVars, approvalCache, labelingCache>>

\* the wrapper after the body: the result is stored unless the key is there
CacheStore(t) ==
    LET th == threads[t]
        cache == CacheOf(th.fn)
        after == IF CacheHas(cache, th.name) THEN cache
                 ELSE CachePut(cache, th.name, th.result)
    IN  /\ th.pc = "computed"
        /\ threads' = [threads EXCEPT ![t] = [th EXCEPT !.pc = "returned"]]
        /\ approvalCache' = IF th.fn = "check_fda_approval" THEN after ELSE approvalCache
        /\ labelingCache' = IF th.fn = "get_fda_labeling" THEN after ELSE labelingCache
        /\ UNCHANGED <<pipelineVars, promptVars>>

NextRace ==
    \/ \E t \in Threads : CacheLookup(t)
    \/ \E t \in Threads : RunApprovalBody(t)
    \/ \E t \in Threads : RunLabelingBody(t)
    \/ \E t \in Threads : CacheStore(t)

SpecRace == InitRace /\ [][NextRace]_vars

\* ================================================================ properties
Finished == pc \in {"returned", "raised"}

\* the payload has the DetectionRecord shape: a bool, a number and a list of
\* strings
IsDetectionRecord(p) ==
    /\ p.t = "dict"
    /\ DOMAIN p.d = {"discussing_drug", "confidence_score", "drug_names"}
    /\ p.d.confidence_score.t = "num"
    /\ \A k \in DOMAIN p.d.drug_names : p.d.drug_names[k].t = "str"

PassesGate(p) ==
    /\ p.d.discussing_drug
    /\ p.d.confidence_score.v >= 65
    /\ p.d.drug_names # <<>>

Unapproved(r) == ~r.approved \/ "error" \in DOMAIN r

\* C1: a finished moderate_post run whose detection record passes the gate
\* and in which some check_fda_approval result is unapproved or carries an
\* error has returned exactly ["drug-unapproved"], and has evaluated no
\* extract_claim and no fact_check_claim call.
C1_UnapprovedShortCircuit ==
    (/\ Finished
     /\ IsDetectionRecord(payload)
     /\ PassesGate(payload)
     /\ \E k \in DOMAIN approvals : Unapproved(approvals[k]))
    => (/\ pc = "returned"
        /\ labels = <<"drug-unapproved">>
        /\ extractCalls = 0
        /\ factCalls = 0)

\* a returned run that checked two drugs, the first approved and the second
\* errored
C1_Witness ==
    /\ pc = "returned"
    /\ IsDetectionRecord(payload)
    /\ PassesGate(payload)
    /\ Len(approvals) = 2
    /\ approvals[1].approved
    /\ "error" \in DOMAIN approvals[2]
    /\ labels = <<"drug-unapproved">>

\* the payload has the three fields, with a boolean flag and a numeric
\* confidence; drug_names may hold anything
HasRecordFields(p) ==
    /\ p.t = "dict"
    /\ DOMAIN p.d = {"discussing_drug", "confidence_score", "drug_names"}
    /\ p.d.confidence_score.t = "num"

\* C2: a finished run whose detection record has discussing_drug false, or a
\* confidence below 0.65, or an empty drug_names has returned [], whatever
\* drug_names contains.
C2_GateGivesEmpty ==
    (/\ Finished
     /\ HasRecordFields(payload)
     /\ \/ ~payload.d.discussing_drug
        \/ payload.d.confidence_score.v < 65
        \/ payload.d.drug_names = <<>>)
    => (pc = "returned" /\ labels = <<>>)

\* a returned run whose record names drugs and says discussing_drug, with a
\* confidence of 0.64
C2_Witness ==
    /\ pc = "returned"
    /\ HasRecordFields(payload)
    /\ payload.d.discussing_drug
    /\ payload.d.confidence_score.v = 64
    /\ Len(payload.d.drug_names) = 2
    /\ labels = <<>>

\* C3: every run that has returned a label list has written exactly one
\* audit row.
C3_OneAuditWritePerReturn ==
    pc = "returned" => Len(audit) = 1

\* C4: once the post text is fetched, the run never ends with an exception:
\* the only exception a run ends with is the fetch error.
C4_NoExceptionAfterFetch ==
    pc = "raised" => exc = "FetchError"

\* C5: a finished run whose detection record passes the gate and whose
\* drugs all resolved approved (the extractor reporting no claim, which it
\* never does in these runs) has returned exactly ["drug-approved"] and
\* logged empty claim details.
C5_ApprovedNoClaims ==
    (/\ Finished
     /\ IsDetectionRecord(payload)
     /\ PassesGate(payload)
     /\ \A k \in DOMAIN approvals : ~Unapproved(approvals[k]))
    => (/\ pc = "returned"
        /\ labels = <<"drug-approved">>
        /\ Len(audit) = 1
        /\ audit[1].claim_details = <<>>)

\* what a check_fda_approval call that ran its body met
Ran == lastApproval.called /\ ~lastApproval.resident
FirstQueryFailed == lastApproval.trace.q1.raised
LabelStepFailed ==
    lastApproval.trace.lab \in {"Timeout", "HTTPError", "JSONDecodeError", "AttributeError"}
SecondQueryAsked == lastApproval.trace.q2 # NotAsked
SecondQueryFailed == SecondQueryAsked /\ lastApproval.trace.q2.raised
UsedResults ==
    IF SecondQueryAsked THEN lastApproval.trace.q2 ELSE lastApproval.trace.q1
ExtractionFailed ==
    /\ ~UsedResults.raised
    /\ UsedResults.value # <<>>
    /\ UsedResults.value[1].t # "dict"
ErroredResult(r) == "error" \in DOMAIN r /\ ~r.approved

ApprovedFrom(rec) ==
    IF rec = RecFull
    THEN [approved |-> TRUE, brand_name |-> <<"A">>, generic_name |-> <<"b">>,
          manufacturer |-> <<"m">>]
    ELSE [approved |-> TRUE, brand_name |-> None, generic_name |-> <<"a">>,
          manufacturer |-> None]

\* the first query found nothing, the labeling index gave a name, and the
\* approval index holds a well-formed record under that name
TwoHopCase ==
    /\ Ran
    /\ lastApproval.trace.q1 = Return(<<>>)
    /\ lastApproval.trace.lab = "ok"
    /\ lastApproval.underGeneric \in {Return(<<RecFull>>), Return(<<RecPartial>>)}

\* C7 as stated: whenever the translated name is distinct from the name
\* asked, the result is approved with the fields of the record found under
\* the translated name.
C7_TwoHopDistinct ==
    (TwoHopCase /\ lastApproval.trace.generic # lastApproval.name)
    => lastApproval.result = ApprovedFrom(lastApproval.underGeneric.value[1])

\* C7 amended: the same whenever the translated name differs from the name
\* asked in more than letter case.
C7_TwoHopDistinctIgnoringCase ==
    (TwoHopCase /\ lower(lastApproval.trace.generic) # lower(lastApproval.name))
    => lastApproval.result = ApprovedFrom(lastApproval.underGeneric.value[1])

\* "A" is unknown to the approval index, the labeling index translates it to
\* "b", and the record under "b" is returned
C7_Witness ==
    /\ TwoHopCase
    /\ lastApproval.name = <<"A">>
    /\ lastApproval.trace.generic = <<"b">>
    /\ lastApproval.trace.queries = 3
    /\ lastApproval.result = ApprovedFrom(RecPartial)

\* C8: a call for a name resident in the cache returns what the call that
\* populated the entry returned, and issues at most one request.
C8_WarmCacheSameResult ==
    (lastApproval.called /\ lastApproval.resident)
    => /\ lastApproval.result = firstResult[lastApproval.name]
       /\ lastApproval.trace.queries <= 1

\* a later run asks again for a name whose cached result is an error
C8_Witness ==
    /\ lastApproval.called
    /\ lastApproval.resident
    /\ Len(approvals) = 1
    /\ Len(approvalCache) = 2
    /\ "error" \in DOMAIN lastApproval.result

\* C9: get_fda_labeling never raises; when its request fails, is answered
\* with a non-success status or an empty result list, or cannot be decoded,
\* the caller reads an empty indication list.
C9_LabelingNeverRaises ==
    (lastLabeling.called /\ ~lastLabeling.resident)
    => /\ ~lastLabeling.outcome.raised
       /\ lastLabeling.request \in {"Timeout", "HTTPError", "nomatch", "JSONDecodeError"}
              => Get(lastLabeling.outcome.value, "indications", <<>>) = <<>>

\* the extractor's answer for the drug just processed says has_claim with a
\* confidence below the band
LowConfidenceClaim ==
    /\ pc \in {"cc_loop", "cc_raised", "cc_done"}
    /\ claim_info # Unset
    /\ Get(claim_info.d, "has_claim", FALSE)
    /\ "claim_confidence" \in DOMAIN claim_info.d
    /\ claim_info.d.claim_confidence.t = "num"
    /\ claim_info.d.claim_confidence.v < CLAIM_CONFIDENCE_BAND

\* C10: a drug whose extractor answer has has_claim=true with a confidence
\* below 0.7 is treated as having no claim: fact_check_claim is not invoked
\* for it, and (for the first drug of the list) no label and no details
\* entry exist after it.
C10_LowConfidenceIsNoClaim ==
    LowConfidenceClaim
    => /\ ~lastFact.called
       /\ i = 2 => (claim_labels = <<>> /\ claim_details = <<>> /\ factCalls = 0)

\* fact_check_claim is called in this step and finds no indications for the
\* drug (get_fda_labeling returned, with an empty or absent list)
NoIndicationsStep ==
    /\ pc = "cc_loop"
    /\ factCalls' = factCalls + 1
    /\ ~lastLabeling'.outcome.raised
    /\ Get(lastLabeling'.outcome.value, "indications", <<>>) = <<>>

C12_MalformedIsZeroRecord ==
    (/\ Finished
     /\ payload # Unset
     /\ ~IsDetectionRecord(payload))
    => (/\ pc = "returned"
        /\ labels = <<>>
        /\ approvals = <<>>)

\* the claim label each recorded verdict stands for
RECURSIVE LabelsOf(_)
LabelsOf(details) ==
    IF details = <<>> THEN <<>>
    ELSE (IF Head(details).supported = "True" THEN <<"supported-claim">>
          ELSE IF Head(details).supported = "False" THEN <<"unsupported-claim">>
          ELSE <<>>) \o LabelsOf(Tail(details))

\* C13: a finished run on the all-approved path has returned
\* "drug-approved" followed by the claim labels of its verdicts in drug
\* order, at most one per approved drug; and no returned list holds both
\* "drug-approved" and "drug-unapproved".
C13_ApprovedThenClaimLabels ==
    /\ (/\ Finished
        /\ IsDetectionRecord(payload)
        /\ PassesGate(payload)
        /\ \A k \in DOMAIN approvals : ~Unapproved(approvals[k]))
       => (/\ pc = "returned"
           /\ labels = <<"drug-approved">> \o LabelsOf(claim_details)
           /\ Len(labels) <= 1 + Len(approved_drugs))
    /\ pc = "returned" => ~(InSeq("drug-approved", labels) /\ InSeq("drug-unapproved", labels))

\* the names of the record as given, and with blanks dropped and the others
\* stripped
GivenNames(p) == [k \in DOMAIN p.d.drug_names |-> p.d.drug_names[k].s]
RECURSIVE StrippedNonBlank(_)
StrippedNonBlank(names) ==
    IF names = <<>> THEN <<>>
    ELSE (IF strip(Head(names)) = <<>> THEN <<>> ELSE <<strip(Head(names))>>)
         \o StrippedNonBlank(Tail(names))

\* C14 as stated: past the gate, any unapproved or errored name gives the
\* unapproved verdict with no approved names; otherwise the approved verdict
\* comes with the full list of input names in input order.
C14_AllOrNothingInputNames ==
    (/\ Finished
     /\ IsDetectionRecord(payload)
     /\ PassesGate(payload))
    => IF \E k \in DOMAIN approvals : Unapproved(approvals[k])
       THEN approval_labels = <<"drug-unapproved">> /\ approved_drugs = <<>>
       ELSE approval_labels = <<"drug-approved">> /\ approved_drugs = GivenNames(payload)

\* C14 amended: the approved verdict comes with the input names stripped of
\* surrounding whitespace, blank names left out, in input order.
C14_AllOrNothingStrippedNames ==
    (/\ Finished
     /\ IsDetectionRecord(payload)
     /\ PassesGate(payload))
    => IF \E k \in DOMAIN approvals : Unapproved(approvals[k])
       THEN approval_labels = <<"drug-unapproved">> /\ approved_drugs = <<>>
       ELSE /\ approval_labels = <<"drug-approved">>
            /\ approved_drugs = StrippedNonBlank(GivenNames(payload))

\* two names, the first padded, both approved
C14_Witness ==
    /\ Finished
    /\ IsDetectionRecord(payload)
    /\ GivenNames(payload) = << <<" ", "A">>, <<"b">> >>
    /\ Len(approvals) = 2
    /\ \A k \in DOMAIN approvals : ~Unapproved(approvals[k])
    /\ approval_labels = <<"drug-approved">>
    /\ approved_drugs = << <<"A">>, <<"b">> >>

\* the errors an audit row carries: the row written by _log_moderation_result
\* has the payload, the labels and the claim details, and no field for errors
RowErrors(row) == IF "errors" \in DOMAIN row THEN row.errors ELSE {}

\* C15: in a run that has returned, every error captured (an approval
\* result carrying an error, the detector's parse failure) is in the audit
\* row written for the run.
C15_ErrorsInAuditRow ==
    pc = "returned" =>
        /\ \A k \in DOMAIN approvals :
               "error" \in DOMAIN approvals[k]
               => (Len(audit) = 1 /\ approvals[k].error \in RowErrors(audit[1]))
        /\ payload = PyNone
               => (Len(audit) = 1 /\ "JSONDecodeError" \in RowErrors(audit[1]))

\* the verifier's output parses to an object whose match_score is a number
HasMatchScore(out) ==
    /\ out.json
    /\ out.value.t = "dict"
    /\ "match_score" \in DOMAIN out.value.d
    /\ out.value.d.match_score.t = "num"

\* C16: when the verifier's output carries a match score, fact_check_claim
\* returns supported = True exactly when the score is at least the threshold
\* and supported = False otherwise, whatever other fields the output has.
C16_SupportedIffScoreAtLeastThreshold ==
    (lastFact.called /\ lastFact.asked /\ HasMatchScore(lastFact.output))
    => /\ ~lastFact.outcome.raised
       /\ lastFact.outcome.value.supported =
              IF lastFact.output.value.d.match_score.v >= FACT_CHECK_THRESHOLD
              THEN "True" ELSE "False"

\* C17: when the verifier's output is not JSON, or is JSON without a usable
\* match score, fact_check_claim returns supported = None and the iteration
\* appends no claim label.
C17_UnusableOutputIsUnknown ==
    [][(pc = "cc_loop" /\ factCalls' = factCalls + 1 /\ lastFact'.asked
        /\ ~HasMatchScore(lastFact'.output))
       => (/\ ~lastFact'.outcome.raised
           /\ lastFact'.outcome.value.supported = "None"
           /\ claim_labels' = claim_labels)]_vars

\* C18: the text placed in the prompt is, when the joined indication text
\* exceeds 1500 characters, its first 1500 characters followed by the
\* truncation marker, and the joined text itself otherwise.
C18_TruncatedAtLimit ==
    pc = "fc_prompted" =>
        LET full == join_indications(indications)
        IN  IF Len(full) > 1500
            THEN /\ Len(fda_text) = 1500 + Len(TruncationMarker)
                 /\ \A k \in 1..1500 : fda_text[k] = full[k]
                 /\ \A k \in 1..Len(TruncationMarker) : fda_text[1500 + k] = TruncationMarker[k]
            ELSE fda_text = full

\* two indications whose joined text is one character over the limit: the
\* first is kept whole, the second loses its last character to the marker
C18_Witness ==
    /\ pc = "fc_prompted"
    /\ Len(indications) = 2
    /\ Len(join_indications(indications)) = 1501
    /\ indications[1][1] = "x" /\ indications[2][1] = "y"
    /\ SubSeq(fda_text, 1, Len(indications[1]) + 2) = Bullet(indications[1])
    /\ fda_text[1500] = "y"
    /\ fda_text[1501] = NewLine
    /\ Len(fda_text) = 1516

\* both callers asked the same function for the same name, both missed, and
\* both calls are over
RacedOnOneName ==
    /\ pc = "race"
    /\ threads[1].fn = threads[2].fn
    /\ threads[1].name = threads[2].name
    /\ \A t \in Threads : threads[t].missed /\ threads[t].pc \in {"returned", "raised"}

EntriesFor(cache, key) == {k \in DOMAIN cache : cache[k].key = key}

\* C19: after two concurrent calls of a cached function for the same
\* uncached name, both have returned a result, the cache holds one entry for
\* the name, and the entry is what one of the calls computed.
C19_RaceLeavesOneEntry ==
    RacedOnOneName =>
        LET cache == CacheOf(threads[1].fn)
            name == threads[1].name
        IN  /\ \A t \in Threads : threads[t].pc = "returned"
            /\ Cardinality(EntriesFor(cache, name)) = 1
            /\ \E t \in Threads : CacheValue(cache, name) = threads[t].result

\* C20: a returned label list containing "drug-approved" comes from a run in
\* which at least one drug name was passed to check_fda_approval and resolved
\* approved without error.
C20_ApprovedMeansSomeDrugApproved ==
    (pc = "returned" /\ InSeq("drug-approved", labels))
    => \E k \in DOMAIN approvals :
           approvals[k].approved /\ "error" \notin DOMAIN approvals[k]

\* what the approval index may answer now to a first query that settles the
\* call by itself: a failure, or a record (an approved product included)
SettlingResponses == {r1 \in ApprovalResponses : ~AsksLabel(r1)}

\* C21: while an errored approval result is resident in the cache, a call
\* for its name returns that same errored result, issues no index query and
\* leaves the entry as it is, whatever the approval index would answer now
\* (an approved record included); and the calls the runs make for such a
\* name return the errored result of the call that populated the entry.
C21_ErroredResultStaysCached ==
    /\ \A n \in CacheKeys(approvalCache) :
           ErroredResult(CacheValue(approvalCache, n))
           => \A r1 \in SettlingResponses :
                  LET c == check_fda_approval(approvalCache, n, r1, NotAsked, NotAsked)
                  IN  /\ c.result = CacheValue(approvalCache, n)
                      /\ c.trace.queries = 0
                      /\ CacheValue(c.cache, n) = CacheValue(approvalCache, n)
    /\ (lastApproval.called /\ lastApproval.resident
            /\ ErroredResult(firstResult[lastApproval.name]))
       => /\ lastApproval.result = firstResult[lastApproval.name]
          /\ lastApproval.trace.queries = 0

\* a run whose first name the index answers for with an approved record and
\* whose second name is served the timeout cached by an earlier run
C21_Witness ==
    /\ lastApproval.called
    /\ lastApproval.resident
    /\ lastApproval.trace.queries = 0
    /\ lastApproval.result = [approved |-> FALSE, error |-> "Timeout"]
    /\ Len(approvals) = 2
    /\ approvals[1].approved
    /\ approvals[2] = lastApproval.result
    /\ Len(approvalCache) = 2

====
